---- MODULE Spec2Model ----
(***************************************************************************)
(* upvibe: the `update` command (index.ts), the update orchestrator        *)
(* (installer.ts), the command builder (packageManager.ts) and the         *)
(* configuration provider (config.ts), as a state machine.                 *)
(*                                                                         *)
(* One step of the machine is what the single JavaScript thread does       *)
(* between two external events: an external process ends, the awaiting     *)
(* code resumes and runs until it has spawned the next process.            *)
(***************************************************************************)
EXTENDS Integers, Sequences, FiniteSets, TLC

(***************************************************************************)
(* Bounds of the model.                                                    *)
(***************************************************************************)
\* longest package list of the configuration file
MaxPkgs == 1
\* longest postinstall list of a package
MaxHooks == 2
\* longest captured standard-error text, in characters
MaxErrLen == 2
\* how many times in a row the update command is run
MaxRuns == 2
\* longest list of published versions drawn freely
MaxAvail == 2
\* the longest package list of a configuration file that is still added to
MaxEntries == 3

(***************************************************************************)
(* Strings.  A text is a sequence of one-character strings.                *)
(***************************************************************************)
NL == "\n"
SP == " "
Whitespace == {NL, SP}

RECURSIVE TrimStart(_)
TrimStart(s) ==
  IF s = <<>> THEN <<>>
  ELSE IF Head(s) \in Whitespace THEN TrimStart(Tail(s)) ELSE s

RECURSIVE TrimEnd(_)
TrimEnd(s) ==
  IF s = <<>> THEN <<>>
  ELSE IF s[Len(s)] \in Whitespace THEN TrimEnd(SubSeq(s, 1, Len(s) - 1)) ELSE s

\* String.prototype.trim
Trim(s) == TrimEnd(TrimStart(s))

\* s.split(ch)[0]: the text before the first occurrence of ch
RECURSIVE Before(_, _)
Before(s, ch) ==
  IF s = <<>> THEN <<>>
  ELSE IF Head(s) = ch THEN <<>> ELSE <<Head(s)>> \o Before(Tail(s), ch)

\* s.split('\n')[0]
FirstLine(s) == Before(s, NL)

(***************************************************************************)
(* Version strings.  A version string is kept as the list of its           *)
(* dot-separated segments (what split('.') returns); a segment is its      *)
(* leading decimal digits, as a number, and the text after them.           *)
(***************************************************************************)
NoDigits == -1
NaN == -2
Undefined == -3

Seg(n) == [d |-> n, rest |-> <<>>]
Word(w) == [d |-> NoDigits, rest |-> w]
V3(a, b, c) == <<Seg(a), Seg(b), Seg(c)>>

\* the dist-tag 'latest' that getTargetVersion returns as a sentinel
Latest == <<Word(<<"l", "a", "t", "e", "s", "t">>)>>

\* Number(segment): digits only give their value, the empty string gives 0,
\* anything else NaN
Number(seg) ==
  IF seg.rest # <<>> THEN NaN
  ELSE IF seg.d = NoDigits THEN 0 ELSE seg.d

\* v.split('.').map(Number)
SplitNumbers(v) == [k \in 1..Len(v) |-> Number(v[k])]

\* array destructuring: const [a, b, c] = arr
Elem(arr, k) == IF k <= Len(arr) THEN arr[k] ELSE Undefined

\* JavaScript a > b and a === b on numbers, NaN and undefined
IsNum(a) == a >= 0
JsGt(a, b) == IsNum(a) /\ IsNum(b) /\ a > b
JsEq(a, b) == a # NaN /\ a = b

\* the segments of v.split(ch)[0] for ch in {'-', '+'}: the version text is
\* cut at the first ch, which can only stand in the rest of a segment
RECURSIVE CutAt(_, _)
CutAt(v, ch) ==
  IF v = <<>> THEN <<>>
  ELSE IF \E k \in 1..Len(Head(v).rest) : Head(v).rest[k] = ch
       THEN <<[d |-> Head(v).d, rest |-> Before(Head(v).rest, ch)]>>
       ELSE <<Head(v)>> \o CutAt(Tail(v), ch)

\* cleanVersion in determineUpdateType
cleanVersion(v) == CutAt(CutAt(v, "-"), "+")

\* while (arr.length < 3) arr.push(0)
Pad3(arr) == arr \o [k \in 1..(IF Len(arr) < 3 THEN 3 - Len(arr) ELSE 0) |-> 0]

\* null, undefined and the empty string: the falsy values of a version
NoVersion == <<>>

\* as determineUpdateType, with a component that differs counted as an update
\* whether it grew or not
determineUpdateTypeAnyChange(currentVersion, targetVersion) ==
  IF currentVersion = NoVersion \/ targetVersion = Latest THEN "none"
  ELSE LET current == Pad3(SplitNumbers(cleanVersion(currentVersion)))
           target == Pad3(SplitNumbers(cleanVersion(targetVersion)))
       IN  IF ~JsEq(target[1], current[1]) THEN "major"
           ELSE IF ~JsEq(target[2], current[2]) THEN "minor"
           ELSE IF ~JsEq(target[3], current[3]) THEN "patch"
           ELSE "none"

determineUpdateType(currentVersion, targetVersion) ==
  IF currentVersion = NoVersion \/ targetVersion = Latest THEN "none"
  ELSE LET current == Pad3(SplitNumbers(cleanVersion(currentVersion)))
           target == Pad3(SplitNumbers(cleanVersion(targetVersion)))
       IN  IF JsGt(target[1], current[1]) THEN "major"
           ELSE IF JsEq(target[1], current[1]) /\ JsGt(target[2], current[2])
                THEN "minor"
           ELSE IF /\ JsEq(target[1], current[1])
                   /\ JsEq(target[2], current[2])
                   /\ JsGt(target[3], current[3])
                THEN "patch"
           ELSE "none"

\* the filter callback of getVersionByStrategy
Eligible(strategy, currentVersion, v) ==
  LET cur == SplitNumbers(currentVersion)
      ver == SplitNumbers(v)
      major == Elem(cur, 1)
      minor == Elem(cur, 2)
      patch == Elem(cur, 3)
      vMajor == Elem(ver, 1)
      vMinor == Elem(ver, 2)
      vPatch == Elem(ver, 3)
  IN  IF strategy = "minor"
      THEN JsEq(vMajor, major)
           /\ (JsGt(vMinor, minor) \/ (JsEq(vMinor, minor) /\ JsGt(vPatch, patch)))
      ELSE JsEq(vMajor, major) /\ JsEq(vMinor, minor) /\ JsGt(vPatch, patch)

\* availableVersions.filter(...)
RECURSIVE Filter(_, _, _)
Filter(strategy, currentVersion, availableVersions) ==
  IF availableVersions = <<>> THEN <<>>
  ELSE (IF Eligible(strategy, currentVersion, Head(availableVersions))
        THEN <<Head(availableVersions)>> ELSE <<>>)
       \o Filter(strategy, currentVersion, Tail(availableVersions))

\* as PickTarget, with the first eligible version taken
PickFirstTarget(strategy, currentVersion, availableVersions) ==
  LET eligibleVersions == Filter(strategy, currentVersion, availableVersions)
  IN  IF Len(eligibleVersions) > 0
      THEN eligibleVersions[1]
      ELSE currentVersion

\* as PickTarget, with 'latest' when no version is eligible
PickTargetOrLatest(strategy, currentVersion, availableVersions) ==
  LET eligibleVersions == Filter(strategy, currentVersion, availableVersions)
  IN  IF Len(eligibleVersions) > 0
      THEN eligibleVersions[Len(eligibleVersions)]
      ELSE Latest

\* the last statement of getVersionByStrategy's try block
PickTarget(strategy, currentVersion, availableVersions) ==
  LET eligibleVersions == Filter(strategy, currentVersion, availableVersions)
  IN  IF Len(eligibleVersions) > 0
      THEN eligibleVersions[Len(eligibleVersions)]
      ELSE currentVersion

(***************************************************************************)
(* The command builder (packageManager.ts).  A command line is kept as its *)
(* leading words, the package name and the version after the '@'.          *)
(***************************************************************************)
SupportedManagers == {"npm", "yarn", "pnpm"}

\* the words of the template before `${packageName}@${version}`; the empty
\* globalFlag leaves no word.  ok = FALSE is the throw of the default branch.
getInstallCommand(manager, packageName, version, global) ==
  LET globalFlag == IF global THEN <<"-g">> ELSE <<>>
  IN  [ok |-> manager \in SupportedManagers,
       words |-> CASE manager = "pnpm" -> <<"pnpm", "add">> \o globalFlag
                   [] manager = "yarn" -> <<"yarn", "global", "add">>
                   [] manager = "npm" -> <<"npm", "install">> \o globalFlag
                   [] OTHER -> <<>>,
       name |-> packageName,
       version |-> version]

\* detectPackageManager: the first available of npm, yarn, pnpm, else npm
detectPackageManager(available) ==
  IF "npm" \in available THEN "npm"
  ELSE IF "yarn" \in available THEN "yarn"
  ELSE IF "pnpm" \in available THEN "pnpm"
  ELSE "npm"

(***************************************************************************)
(* The configuration provider (config.ts).                                 *)
(***************************************************************************)
\* a package record of the file; "" and <<>> stand for an absent field
Pkg(name, global, strategy, version, postinstall) ==
  [name |-> name, global |-> global, strategy |-> strategy,
   version |-> version, postinstall |-> postinstall]

\* as IsGlobal, with an absent flag read as not global
IsGlobalWhenSet(pkg) == pkg.global = "true"

\* pkg.global !== false
IsGlobal(pkg) == pkg.global # "false"

\* the map callback of readConfigFile: defaults for global and strategy
WithDefaults(pkg) ==
  [pkg EXCEPT !.global = IF pkg.global # "false" THEN "true" ELSE "false",
              !.strategy = IF pkg.strategy = "" THEN "latest" ELSE pkg.strategy]

readConfigFile(f) == [k \in 1..Len(f.packages) |-> WithDefaults(f.packages[k])]

UpvibePkg == Pkg("upvibe", "true", "latest", NoVersion, <<>>)

hasUpvibe(pkgs) == \E k \in 1..Len(pkgs) : pkgs[k].name = "upvibe"

\* the package list loadConfig returns for a readable file
loadConfig(f) ==
  LET pkgs == readConfigFile(f)
  IN  IF hasUpvibe(pkgs) THEN pkgs ELSE <<UpvibePkg>> \o pkgs

\* as validatePackageConfig, without the check of a version on a strategy
\* that is not pinned
validateWithoutVersionCheck(pkg) ==
  (IF pkg.name = "" THEN 1 ELSE 0)
  + (IF pkg.strategy = "pinned" /\ pkg.version = NoVersion THEN 1 ELSE 0)

\* as validatePackageConfig, without the check that a pinned package has a
\* version
validateWithoutPinnedCheck(pkg) ==
  (IF pkg.name = "" THEN 1 ELSE 0)
  + (IF pkg.version # NoVersion /\ pkg.strategy # "pinned" THEN 1 ELSE 0)

\* the number of error messages validatePackageConfig returns
validatePackageConfig(pkg) ==
  (IF pkg.name = "" THEN 1 ELSE 0)
  + (IF pkg.strategy = "pinned" /\ pkg.version = NoVersion THEN 1 ELSE 0)
  + (IF pkg.version # NoVersion /\ pkg.strategy # "pinned" THEN 1 ELSE 0)

RECURSIVE CountErrors(_)
CountErrors(pkgs) ==
  IF pkgs = <<>> THEN 0
  ELSE validatePackageConfig(Head(pkgs)) + CountErrors(Tail(pkgs))

(***************************************************************************)
(* The environment: the registry and the installed packages.               *)
(***************************************************************************)
PackageNames == {"upvibe", "tool"}

\* what `npm view <name> versions --json` prints when it succeeds
Published ==
  <<V3(1, 2, 3), V3(1, 2, 4), V3(1, 3, 0), V3(1, 3, 5), V3(1, 9, 0), V3(2, 0, 0)>>

\* what `npm view <name> version` prints when it succeeds, and what the tag
\* @latest installs
LatestPublished == Published[Len(Published)]

IsPublished(v) == v = Latest \/ \E k \in 1..Len(Published) : Published[k] = v

\* an installation not looked at yet; its version is fixed by the first look
Unknown == <<Word(<<"?">>)>>

InstalledPool == {NoVersion, V3(1, 2, 3), V3(2, 0, 0)}

\* the versions npm can report for an installation
CanBe(w) == IF w = Unknown THEN InstalledPool ELSE {w}

\* the installation a command line changes: global with -g or `global`
CommandIsGlobal(command) ==
  \E k \in 1..Len(command.words) : command.words[k] \in {"-g", "global"}

CommandScope(command) == IF CommandIsGlobal(command) THEN "g" ELSE "l"

\* the version a successful install command leaves installed
InstalledBy(command) ==
  IF command.version = Latest THEN LatestPublished ELSE command.version

(***************************************************************************)
(* Captured standard error and error messages.                             *)
(***************************************************************************)
ErrChars == {"e", NL}

RECURSIVE TextsUpTo(_)
TextsUpTo(n) ==
  IF n = 0 THEN {<<>>}
  ELSE LET shorter == TextsUpTo(n - 1)
       IN  shorter \cup {Append(t, c) : t \in {u \in shorter : Len(u) = n - 1},
                                      c \in ErrChars}

StdErrs == TextsUpTo(MaxErrLen)

ExitCodes == {0, 1}

\* the child's 'error' event instead of an exit code
SpawnError == -1

\* new Error(`Command failed with exit code ${code}`) of spawnAsync
CommandFailed(code) == <<"Command failed with exit code ", ToString(code)>>

\* the message of the child's 'error' event
SpawnFailed == <<"spawn failed">>

\* the message of the Error spawnAsync rejects with
RejectMessage(code) == IF code = SpawnError THEN SpawnFailed ELSE CommandFailed(code)

\* as errorMessage, without the trim
errorMessageUntrimmed(stderr, message) ==
  FirstLine(IF stderr # <<>> THEN stderr ELSE message)

\* the catch block of updatePackage: stderr if it is not blank, else the
\* message; then the first line
errorMessage(stderr, message) ==
  FirstLine(IF Trim(stderr) # <<>> THEN Trim(stderr) ELSE message)

PinnedRequired == <<"Version is required for pinned strategy">>
UnknownManager(manager) == <<"Unknown package manager: ", manager>>

(***************************************************************************)
(* State.                                                                  *)
(***************************************************************************)
VARIABLES
  file,       \* the configuration file ~/.upvibe.json
  installed,  \* the installed version of each package, global and local
  phase,      \* the update command: "start", "updating", "exited"
  exitCode,   \* the argument of process.exit, -1 while running
  summary,    \* printSummary: "none", "pending" (awaiting setImmediate)
  packages,   \* config.packages as passed to updatePackages
  pm,         \* the packageManager passed to updatePackages
  pc,         \* per package: the external process updatePackage awaits
  loc,        \* per package: the local variables of updatePackage
  results,    \* the results array of updatePackages
  warned,     \* the packages getVersionByStrategy printed its warning for
  cmdLog,     \* history: the install and postinstall commands spawned
  run,        \* history: how many times the update command was started
  firstResults, \* history: the results of the previous run
  call,      \* the invocation under study: its function and arguments
  value       \* what that invocation returned, <<>> before it returns

vars == <<file, installed, phase, exitCode, summary, packages, pm, pc, loc,
          results, warned, cmdLog, run, firstResults, call, value>>

\* the update command run with options and an environment left open
NoCall == [fn |-> "update", args |-> <<>>]

NoLoc ==
  [currentVersion |-> NoVersion, stratCurrent |-> NoVersion,
   targetVersion |-> NoVersion, actualTargetVersion |-> NoVersion,
   updateType |-> "none", hook |-> 0, code |-> 0, stderr |-> <<>>]

(***************************************************************************)
(* Initial states: a configuration file and nothing looked at yet.         *)
(***************************************************************************)
Strategies == {"latest", "minor", "patch", "pinned"}

HookLists == {[k \in 1..n |-> k] : n \in 0..MaxHooks}

FilePkgs ==
  {Pkg(n, g, s, v, h) : n \in PackageNames \cup {""}, g \in {"true", "false"},
                        s \in Strategies, v \in {NoVersion, V3(1, 2, 3)},
                        h \in HookLists}

RECURSIVE SeqsUpTo(_, _)
SeqsUpTo(S, n) ==
  IF n = 0 THEN {<<>>}
  ELSE LET shorter == SeqsUpTo(S, n - 1)
       IN  shorter \cup {Append(q, x) : q \in {u \in shorter : Len(u) = n - 1},
                                      x \in S}

FileManagers == {"", "bun"}

Files ==
  {[kind |-> "ok", packages |-> ps, packageManager |-> m] :
     ps \in SeqsUpTo(FilePkgs, MaxPkgs), m \in FileManagers}
  \cup {[kind |-> k, packages |-> <<>>, packageManager |-> ""] :
          k \in {"missing", "corrupt"}}

Init ==
  /\ file \in Files
  /\ installed = [n \in PackageNames |-> [g |-> Unknown, l |-> Unknown]]
  /\ phase = "start"
  /\ exitCode = -1
  /\ summary = "none"
  /\ packages = <<>>
  /\ pm = ""
  /\ pc = <<>>
  /\ loc = <<>>
  /\ results = <<>>
  /\ warned = {}
  /\ cmdLog = <<>>
  /\ run = 1
  /\ firstResults = <<>>
  /\ call = NoCall
  /\ value = <<>>

(***************************************************************************)
(* updatePackages and updatePackage (installer.ts).                        *)
(***************************************************************************)
\* as Failed, with the version that was to be installed reported as well
FailedWithVersion(i, message) ==
  [success |-> FALSE, package |-> packages[i].name, error |-> message,
   version |-> loc[i].actualTargetVersion]

Failed(i, message) ==
  [success |-> FALSE, package |-> packages[i].name, error |-> message]

Succeeded(i, l) ==
  [success |-> TRUE, package |-> packages[i].name,
   version |-> l.actualTargetVersion, currentVersion |-> l.currentVersion,
   updateType |-> l.updateType]

\* as LoopFirst, with every updatePackage called at once (a map without await)
LoopFirstAll(n) == 1..n

\* the packages whose updatePackage the for loop calls on entry
LoopFirst(n) == IF n >= 1 THEN {1} ELSE {}

\* the packages whose updatePackage the loop calls once package i returned
LoopNext(i, n) == IF i < n THEN {i + 1} ELSE {}

\* as hasFailures, with every in place of some
hasOnlyFailures(rs) == \A k \in 1..Len(rs) : ~rs[k].success

\* results.some(r => !r.success)
hasFailures(rs) == \E k \in 1..Len(rs) : ~rs[k].success

\* updatePackages returned rs to the update command: printSummary is called
\* and not awaited, so it stands at its setImmediate when process.exit runs
Returned(rs) ==
  /\ summary' = "pending"
  /\ exitCode' = IF hasFailures(rs) THEN 1 ELSE 0
  /\ phase' = "exited"

\* as Finish, with the loop left at the first failed package
FinishOrAbort(i, result) ==
  LET next == IF result.success THEN LoopNext(i, Len(packages)) ELSE {}
  IN  /\ results' = Append(results, result)
      /\ pc' = [k \in 1..Len(pc) |->
                  IF k \in next THEN "getCurrentVersion"
                  ELSE IF k = i THEN "done" ELSE pc[k]]
      /\ loc' = [loc EXCEPT ![i] = NoLoc]
      /\ IF next = {}
         THEN Returned(results')
         ELSE UNCHANGED <<summary, exitCode, phase>>

\* updatePackage(i) returns result: it is pushed, and the loop goes on
Finish(i, result) ==
  LET next == LoopNext(i, Len(packages))
  IN  /\ results' = Append(results, result)
      /\ pc' = [k \in 1..Len(pc) |->
                  IF k \in next THEN "getCurrentVersion"
                  ELSE IF k = i THEN "done" ELSE pc[k]]
      /\ loc' = [loc EXCEPT ![i] = NoLoc]
      /\ IF next = {}
         THEN Returned(results')
         ELSE UNCHANGED <<summary, exitCode, phase>>

\* spawn the install command of package i
SpawnInstall(i, l, command) ==
  /\ pc' = [pc EXCEPT ![i] = "install"]
  /\ loc' = [loc EXCEPT ![i] = l]
  /\ cmdLog' = Append(cmdLog, [pkg |-> i, kind |-> "install",
                               hook |-> 0, command |-> command])
  /\ UNCHANGED <<results, summary, exitCode, phase>>

\* as Install, with no install when the version to report is the current one
InstallUnlessCurrent(i, l) ==
  LET command == getInstallCommand(pm, packages[i].name, l.targetVersion,
                                   IsGlobal(packages[i]))
      l2 == [l EXCEPT !.updateType =
               determineUpdateType(l.currentVersion, l.actualTargetVersion)]
  IN  IF ~command.ok
      THEN Finish(i, Failed(i, errorMessage(<<>>, UnknownManager(pm))))
           /\ UNCHANGED cmdLog
      ELSE IF l.currentVersion # NoVersion
              /\ l.actualTargetVersion = l.currentVersion
      THEN Finish(i, Succeeded(i, l2)) /\ UNCHANGED cmdLog
      ELSE SpawnInstall(i, l2, command)

\* as Install, with the error of getInstallCommand ending the process
InstallOrCrash(i, l) ==
  LET command == getInstallCommand(pm, packages[i].name, l.targetVersion,
                                   IsGlobal(packages[i]))
      l2 == [l EXCEPT !.updateType =
               determineUpdateType(l.currentVersion, l.actualTargetVersion)]
  IN  IF ~command.ok
      THEN /\ phase' = "exited"
           /\ exitCode' = 1
           /\ UNCHANGED <<results, summary, pc, loc, cmdLog>>
      ELSE SpawnInstall(i, l2, command)

\* lines 298-325: classify, build the command, spawn it
Install(i, l) ==
  LET command == getInstallCommand(pm, packages[i].name, l.targetVersion,
                                   IsGlobal(packages[i]))
      l2 == [l EXCEPT !.updateType =
               determineUpdateType(l.currentVersion, l.actualTargetVersion)]
  IN  IF ~command.ok
      THEN Finish(i, Failed(i, errorMessage(<<>>, UnknownManager(pm))))
           /\ UNCHANGED cmdLog
      ELSE SpawnInstall(i, l2, command)

\* as Targeted, with a target equal to the current version short-circuited
TargetedUnlessCurrent(i, l) ==
  IF l.targetVersion = Latest
  THEN /\ pc' = [pc EXCEPT ![i] = "viewLatest"]
       /\ loc' = [loc EXCEPT ![i] = l]
       /\ UNCHANGED <<results, summary, exitCode, phase, cmdLog>>
  ELSE IF l.targetVersion = l.currentVersion
  THEN Finish(i, Succeeded(i, l)) /\ UNCHANGED cmdLog
  ELSE Install(i, l)

\* lines 287-296: a target 'latest' is looked up with `npm view <name> version`
Targeted(i, l) ==
  IF l.targetVersion = Latest
  THEN /\ pc' = [pc EXCEPT ![i] = "viewLatest"]
       /\ loc' = [loc EXCEPT ![i] = l]
       /\ UNCHANGED <<results, summary, exitCode, phase, cmdLog>>
  ELSE Install(i, l)

\* as LookupFailed, with the error thrown on to updatePackage
LookupFailedThrows(i, l) ==
  /\ warned' = warned \cup {i}
  /\ Finish(i, Failed(i, errorMessage(<<>>, CommandFailed(1))))
  /\ UNCHANGED cmdLog

\* the catch block of getVersionByStrategy: warn and fall back to 'latest'
LookupFailed(i, l) ==
  /\ warned' = warned \cup {i}
  /\ Targeted(i, [l EXCEPT !.targetVersion = Latest,
                            !.actualTargetVersion = Latest])

\* as getTargetVersion, with no check that a pinned package has a version
getTargetVersionUnchecked(i, l) ==
  LET pkg == packages[i]
      strategy == IF pkg.strategy = "" THEN "latest" ELSE pkg.strategy
  IN  CASE strategy = "pinned" ->
             Targeted(i, [l EXCEPT !.targetVersion = pkg.version,
                                   !.actualTargetVersion = pkg.version])
        [] strategy \in {"minor", "patch"} ->
             /\ pc' = [pc EXCEPT ![i] = "stratList"]
             /\ loc' = [loc EXCEPT ![i] = l]
             /\ UNCHANGED <<results, summary, exitCode, phase, cmdLog>>
        [] OTHER ->
             Targeted(i, [l EXCEPT !.targetVersion = Latest,
                                   !.actualTargetVersion = Latest])

\* getTargetVersion, up to its first external command
getTargetVersion(i, l) ==
  LET pkg == packages[i]
      strategy == IF pkg.strategy = "" THEN "latest" ELSE pkg.strategy
  IN  CASE strategy = "pinned" ->
             IF pkg.version = NoVersion
             THEN Finish(i, Failed(i, errorMessage(<<>>, PinnedRequired)))
                  /\ UNCHANGED cmdLog
             ELSE Targeted(i, [l EXCEPT !.targetVersion = pkg.version,
                                        !.actualTargetVersion = pkg.version])
        [] strategy \in {"minor", "patch"} ->
             /\ pc' = [pc EXCEPT ![i] = "stratList"]
             /\ loc' = [loc EXCEPT ![i] = l]
             /\ UNCHANGED <<results, summary, exitCode, phase, cmdLog>>
        [] OTHER ->
             Targeted(i, [l EXCEPT !.targetVersion = Latest,
                                   !.actualTargetVersion = Latest])

\* getCurrentVersion: `npm list [-g] <name> --json` ended
GetCurrentVersionDone(i) ==
  /\ phase = "updating"
  /\ pc[i] = "getCurrentVersion"
  /\ LET name == packages[i].name
         scope == IF IsGlobal(packages[i]) THEN "g" ELSE "l"
     IN  \E w \in CanBe(installed[name][scope]), ok \in BOOLEAN :
           /\ installed' = [installed EXCEPT ![name][scope] = w]
           /\ getTargetVersion(i, [loc[i] EXCEPT !.currentVersion =
                                     IF ok THEN w ELSE NoVersion])
  /\ UNCHANGED <<file, packages, pm, warned, run, firstResults, call, value>>

\* getVersionByStrategy: `npm list -g <name> --json` ended
StratListDone(i) ==
  /\ phase = "updating"
  /\ pc[i] = "stratList"
  /\ LET name == packages[i].name
     IN  \E w \in CanBe(installed[name]["g"]), ok \in BOOLEAN :
           /\ installed' = [installed EXCEPT ![name]["g"] = w]
           /\ IF ~ok THEN LookupFailed(i, loc[i])
              ELSE IF w = NoVersion
              THEN /\ Targeted(i, [loc[i] EXCEPT !.targetVersion = Latest,
                                                 !.actualTargetVersion = Latest])
                   /\ UNCHANGED warned
              ELSE /\ pc' = [pc EXCEPT ![i] = "stratView"]
                   /\ loc' = [loc EXCEPT ![i].stratCurrent = w]
                   /\ UNCHANGED <<results, summary, exitCode, phase, cmdLog,
                                  warned>>
  /\ UNCHANGED <<file, packages, pm, run, firstResults, call, value>>

\* getVersionByStrategy: `npm view <name> versions --json` ended
StratViewDone(i) ==
  /\ phase = "updating"
  /\ pc[i] = "stratView"
  /\ \E ok \in BOOLEAN :
       IF ~ok THEN LookupFailed(i, loc[i])
       ELSE LET target == PickTarget(packages[i].strategy, loc[i].stratCurrent,
                                     Published)
            IN  /\ Targeted(i, [loc[i] EXCEPT !.targetVersion = target,
                                              !.actualTargetVersion = target])
                /\ UNCHANGED warned
  /\ UNCHANGED <<file, installed, packages, pm, run, firstResults, call, value>>

\* as ViewLatestDone, with a failed lookup thrown on to the catch block of
\* updatePackage
ViewLatestDoneThrows(i) ==
  /\ phase = "updating"
  /\ pc[i] = "viewLatest"
  /\ \E ok \in BOOLEAN :
       IF ok
       THEN Install(i, [loc[i] EXCEPT !.actualTargetVersion = LatestPublished])
       ELSE Finish(i, Failed(i, errorMessage(<<>>, CommandFailed(1))))
            /\ UNCHANGED cmdLog
  /\ UNCHANGED <<file, installed, packages, pm, warned, run, firstResults, call, value>>

\* updatePackage: `npm view <name> version` ended
ViewLatestDone(i) ==
  /\ phase = "updating"
  /\ pc[i] = "viewLatest"
  /\ \E ok \in BOOLEAN :
       Install(i, [loc[i] EXCEPT !.actualTargetVersion =
                     IF ok THEN LatestPublished ELSE Latest])
  /\ UNCHANGED <<file, installed, packages, pm, warned, run, firstResults, call, value>>

\* the last command the log holds for package i
RECURSIVE LastCommand(_, _)
LastCommand(log, i) ==
  IF log[Len(log)].pkg = i THEN log[Len(log)]
  ELSE LastCommand(SubSeq(log, 1, Len(log) - 1), i)

\* spawnAsync: the child's 'close' event, its stderr captured so far
ChildClose(i) ==
  /\ phase = "updating"
  /\ pc[i] \in {"install", "hook"}
  /\ \E code \in ExitCodes, stderr \in StdErrs :
       LET command == LastCommand(cmdLog, i).command
           installs == pc[i] = "install" /\ code = 0
       IN  /\ code = 0 => stderr = <<>>
           /\ installs => IsPublished(command.version)
           /\ loc' = [loc EXCEPT ![i].code = code, ![i].stderr = stderr]
           /\ installed' =
                IF installs
                THEN [installed EXCEPT
                        ![command.name][CommandScope(command)] =
                          InstalledBy(command)]
                ELSE installed
  /\ pc' = [pc EXCEPT ![i] = IF pc[i] = "install" THEN "installClosed"
                               ELSE "hookClosed"]
  /\ UNCHANGED <<file, phase, exitCode, summary, packages, pm, results, cmdLog,
                 warned, run, firstResults, call, value>>

\* spawnAsync: the child's 'error' event (the command could not be spawned)
ChildError(i) ==
  /\ phase = "updating"
  /\ pc[i] \in {"install", "hook"}
  /\ loc' = [loc EXCEPT ![i].code = SpawnError, ![i].stderr = <<>>]
  /\ pc' = [pc EXCEPT ![i] = IF pc[i] = "install" THEN "installClosed"
                               ELSE "hookClosed"]
  /\ UNCHANGED <<file, installed, phase, exitCode, summary, packages, pm,
                 results, cmdLog, warned, run, firstResults, call, value>>

\* as SpawnSettled, with a failed hook not ending the remaining hooks
SpawnSettledHooksGoOn(i) ==
  /\ phase = "updating"
  /\ pc[i] \in {"installClosed", "hookClosed"}
  /\ LET pkg == packages[i]
         h == loc[i].hook + 1
     IN  IF loc[i].code # 0 /\ (pc[i] = "installClosed" \/ h > Len(pkg.postinstall))
         THEN Finish(i, Failed(i, errorMessage(loc[i].stderr,
                                               RejectMessage(loc[i].code))))
              /\ UNCHANGED cmdLog
         ELSE IF h <= Len(pkg.postinstall)
         THEN /\ pc' = [pc EXCEPT ![i] = "hook"]
              /\ loc' = [loc EXCEPT ![i].hook = h]
              /\ cmdLog' = Append(cmdLog, [pkg |-> i, kind |-> "hook", hook |-> h,
                                           command |-> pkg.postinstall[h]])
              /\ UNCHANGED <<results, summary, exitCode, phase>>
         ELSE Finish(i, Succeeded(i, loc[i])) /\ UNCHANGED cmdLog
  /\ UNCHANGED <<file, installed, packages, pm, warned, run, firstResults, call, value>>

\* as SpawnSettled, with a promise of spawnAsync that is never rejected
SpawnSettledOnSuccess(i) ==
  /\ phase = "updating"
  /\ pc[i] \in {"installClosed", "hookClosed"}
  /\ loc[i].code = 0
  /\ LET pkg == packages[i]
         h == loc[i].hook + 1
     IN  IF h <= Len(pkg.postinstall)
         THEN /\ pc' = [pc EXCEPT ![i] = "hook"]
              /\ loc' = [loc EXCEPT ![i].hook = h]
              /\ cmdLog' = Append(cmdLog, [pkg |-> i, kind |-> "hook", hook |-> h,
                                           command |-> pkg.postinstall[h]])
              /\ UNCHANGED <<results, summary, exitCode, phase>>
         ELSE Finish(i, Succeeded(i, loc[i])) /\ UNCHANGED cmdLog
  /\ UNCHANGED <<file, installed, packages, pm, warned, run, firstResults,
                 call, value>>

\* as SpawnSettled, with a command that failed started once more
SpawnSettledRetryOnce(i) ==
  /\ phase = "updating"
  /\ pc[i] \in {"installClosed", "hookClosed"}
  /\ LET pkg == packages[i]
         h == loc[i].hook + 1
         last == LastCommand(cmdLog, i)
         tried == Len(SelectSeq(cmdLog, LAMBDA e : e = last))
     IN  IF loc[i].code # 0 /\ tried < 2
         THEN /\ pc' = [pc EXCEPT ![i] = IF pc[i] = "installClosed"
                                         THEN "install" ELSE "hook"]
              /\ loc' = [loc EXCEPT ![i].code = 0, ![i].stderr = <<>>]
              /\ cmdLog' = Append(cmdLog, last)
              /\ UNCHANGED <<results, summary, exitCode, phase>>
         ELSE IF loc[i].code # 0
         THEN Finish(i, Failed(i, errorMessage(loc[i].stderr,
                                               RejectMessage(loc[i].code))))
              /\ UNCHANGED cmdLog
         ELSE IF h <= Len(pkg.postinstall)
         THEN /\ pc' = [pc EXCEPT ![i] = "hook"]
              /\ loc' = [loc EXCEPT ![i].hook = h]
              /\ cmdLog' = Append(cmdLog, [pkg |-> i, kind |-> "hook", hook |-> h,
                                           command |-> pkg.postinstall[h]])
              /\ UNCHANGED <<results, summary, exitCode, phase>>
         ELSE Finish(i, Succeeded(i, loc[i])) /\ UNCHANGED cmdLog
  /\ UNCHANGED <<file, installed, packages, pm, warned, run, firstResults,
                 call, value>>

\* updatePackage resumes after spawnAsync settled: the next hook, the
\* success result, or the catch block
SpawnSettled(i) ==
  /\ phase = "updating"
  /\ pc[i] \in {"installClosed", "hookClosed"}
  /\ LET pkg == packages[i]
         h == loc[i].hook + 1
     IN  IF loc[i].code # 0
         THEN Finish(i, Failed(i, errorMessage(loc[i].stderr,
                                               RejectMessage(loc[i].code))))
              /\ UNCHANGED cmdLog
         ELSE IF h <= Len(pkg.postinstall)
         THEN /\ pc' = [pc EXCEPT ![i] = "hook"]
              /\ loc' = [loc EXCEPT ![i].hook = h]
              /\ cmdLog' = Append(cmdLog, [pkg |-> i, kind |-> "hook", hook |-> h,
                                           command |-> pkg.postinstall[h]])
              /\ UNCHANGED <<results, summary, exitCode, phase>>
         ELSE Finish(i, Succeeded(i, loc[i])) /\ UNCHANGED cmdLog
  /\ UNCHANGED <<file, installed, packages, pm, warned, run, firstResults, call, value>>

(***************************************************************************)
(* The update command (index.ts) up to the first external command of       *)
(* updatePackages.                                                         *)
(***************************************************************************)
\* the values of --manager the runs are given: absent or not a manager
ManagerOptions == {"", "bun"}

\* as selectManager, with the configuration file winning over --manager
selectManagerConfigFirst(manager, configManager, available) ==
  IF configManager # "" THEN configManager
  ELSE IF manager # ""
  THEN IF manager \notin SupportedManagers THEN "" ELSE manager
  ELSE detectPackageManager(available)

\* lines 56-71 of the update command: the package manager of the run;
\* "" stands for process.exit(1) on an invalid --manager
selectManager(manager, configManager, available) ==
  IF manager # ""
  THEN IF manager \notin SupportedManagers THEN "" ELSE manager
  ELSE IF configManager # "" THEN configManager
  ELSE detectPackageManager(available)

Exit(code) ==
  /\ phase' = "exited"
  /\ exitCode' = code
  /\ UNCHANGED <<summary, packages, pm, pc, loc, results, cmdLog, warned>>

\* updatePackages(ps, manager): the loop starts
updatePackages(ps, manager) ==
  /\ packages' = ps
  /\ pm' = manager
  /\ results' = <<>>
  /\ pc' = [k \in 1..Len(ps) |->
              IF k \in LoopFirst(Len(ps)) THEN "getCurrentVersion" ELSE "idle"]
  /\ loc' = [k \in 1..Len(ps) |-> NoLoc]
  /\ cmdLog' = <<>>
  /\ warned' = {}
  /\ IF Len(ps) = 0
     THEN Returned(<<>>)
     ELSE phase' = "updating" /\ UNCHANGED <<summary, exitCode>>

\* the action of the update command, given --manager, the managers `which`
\* finds and whether the configuration file can be written
update(manager, available, writeOk) ==
  IF file.kind # "ok"
  THEN Exit(1) /\ UNCHANGED file
  ELSE LET config == [packages |-> loadConfig(file),
                      packageManager |-> file.packageManager]
           saved == ~hasUpvibe(readConfigFile(file)) /\ writeOk
       IN  /\ file' = IF saved
                      THEN [file EXCEPT !.packages = config.packages]
                      ELSE file
           /\ IF CountErrors(config.packages) > 0 THEN Exit(1)
              ELSE IF Len(config.packages) = 0 THEN Exit(0)
              ELSE LET chosen == selectManager(manager, config.packageManager,
                                               available)
                   IN  IF chosen = "" THEN Exit(1)
                       ELSE updatePackages(config.packages, chosen)

UpdateCommand ==
  /\ phase = "start"
  /\ call = NoCall
  /\ \E manager \in ManagerOptions, available \in SUBSET SupportedManagers,
        writeOk \in BOOLEAN :
       update(manager, available, writeOk)
  /\ UNCHANGED <<installed, run, firstResults, call, value>>

\* the user starts the update command again after it exited
Rerun ==
  /\ phase = "exited"
  /\ run < MaxRuns
  /\ run' = run + 1
  /\ firstResults' = results
  /\ phase' = "start"
  /\ exitCode' = -1
  /\ summary' = "none"
  /\ packages' = <<>>
  /\ pm' = ""
  /\ pc' = <<>>
  /\ loc' = <<>>
  /\ results' = <<>>
  /\ warned' = {}
  /\ cmdLog' = <<>>
  /\ UNCHANGED <<file, installed, call, value>>

\* an external command of some updatePackage ends and updatePackage goes on
PipelineStep ==
  \/ \E i \in 1..Len(packages) : GetCurrentVersionDone(i)
  \/ \E i \in 1..Len(packages) : StratListDone(i)
  \/ \E i \in 1..Len(packages) : StratViewDone(i)
  \/ \E i \in 1..Len(packages) : ViewLatestDone(i)
  \/ \E i \in 1..Len(packages) : ChildClose(i)
  \/ \E i \in 1..Len(packages) : ChildError(i)
  \/ \E i \in 1..Len(packages) : SpawnSettled(i)

Next == UpdateCommand \/ PipelineStep

Spec == Init /\ [][Next]_vars

(***************************************************************************)
(* Two runs in a row over a configuration file that lists upvibe itself,   *)
(* without post-install hooks.                                             *)
(***************************************************************************)
InitTwice ==
  /\ Init
  /\ file.kind = "ok"
  /\ file.packageManager = ""
  /\ \A k \in 1..Len(file.packages) :
        file.packages[k].name = "upvibe" /\ file.packages[k].postinstall = <<>>

NextTwice == Next \/ Rerun

SpecTwice == InitTwice /\ [][NextTwice]_vars

(***************************************************************************)
(* updatePackages called with package records as written, not read by      *)
(* readConfigFile and not validated; its caller does with the results what *)
(* the update command does.                                                *)
(***************************************************************************)
\* records of one package with any field absent, with at most one hook
RawPkgs ==
  {Pkg("tool", g, s, v, h) : g \in {"", "true", "false"},
                             s \in Strategies \cup {""},
                             v \in {NoVersion, V3(1, 9, 0)},
                             h \in {<<>>, <<1>>}}

RawLists == {<<p>> \o rest : p \in RawPkgs, rest \in {<<>>, <<UpvibePkg>>}}

RawManagers == {"npm", "bun"}

RawCalls ==
  {[fn |-> "updatePackages", args |-> <<ps, m>>] :
     ps \in RawLists, m \in RawManagers}

InitRaw ==
  /\ file = [kind |-> "missing", packages |-> <<>>, packageManager |-> ""]
  /\ installed = [n \in PackageNames |-> [g |-> Unknown, l |-> Unknown]]
  /\ phase = "start"
  /\ exitCode = -1
  /\ summary = "none"
  /\ packages = <<>>
  /\ pm = ""
  /\ pc = <<>>
  /\ loc = <<>>
  /\ results = <<>>
  /\ warned = {}
  /\ cmdLog = <<>>
  /\ run = 1
  /\ firstResults = <<>>
  /\ call \in RawCalls
  /\ value = <<>>

CallUpdatePackages ==
  /\ phase = "start"
  /\ call.fn = "updatePackages"
  /\ updatePackages(call.args[1], call.args[2])
  /\ UNCHANGED <<file, installed, run, firstResults, call, value>>

NextRaw == CallUpdatePackages \/ PipelineStep

SpecRaw == InitRaw /\ [][NextRaw]_vars

(***************************************************************************)
(* The update command with its --manager option and the managers found in  *)
(* the environment known from the start, over a configuration file that    *)
(* lists upvibe alone, with strategy latest or minor.                      *)
(***************************************************************************)
AllManagerOptions == {"", "npm", "yarn", "pnpm", "bun"}

ManagerCalls ==
  {[fn |-> "update", args |-> <<m, a>>] :
     m \in AllManagerOptions, a \in SUBSET SupportedManagers}

InitManager ==
  /\ file \in {[kind |-> "ok",
                 packages |-> <<Pkg("upvibe", "true", s, NoVersion, <<>>)>>,
                 packageManager |-> m] :
                 s \in {"latest", "minor"}, m \in AllManagerOptions}
  /\ installed = [n \in PackageNames |-> [g |-> Unknown, l |-> Unknown]]
  /\ phase = "start"
  /\ exitCode = -1
  /\ summary = "none"
  /\ packages = <<>>
  /\ pm = ""
  /\ pc = <<>>
  /\ loc = <<>>
  /\ results = <<>>
  /\ warned = {}
  /\ cmdLog = <<>>
  /\ run = 1
  /\ firstResults = <<>>
  /\ call \in ManagerCalls
  /\ value = <<>>

UpdateCommandCalled ==
  /\ phase = "start"
  /\ call.fn = "update"
  /\ call.args # <<>>
  /\ \E writeOk \in BOOLEAN : update(call.args[1], call.args[2], writeOk)
  /\ UNCHANGED <<installed, run, firstResults, call, value>>

NextManager == UpdateCommandCalled \/ PipelineStep

SpecManager == InitManager /\ [][NextManager]_vars

(***************************************************************************)
(* One package record with its global flag and its strategy present or     *)
(* absent, read from the configuration file by the update command or       *)
(* handed as written to updatePackages.                                    *)
(***************************************************************************)
DefaultsPkgs ==
  {Pkg("upvibe", g, s, NoVersion, <<>>) : g \in {"", "true", "false"},
                                          s \in {"", "latest", "minor"}}

InitDefaults ==
  /\ file \in {[kind |-> "ok", packages |-> <<p>>, packageManager |-> ""] :
                 p \in DefaultsPkgs}
  /\ installed = [n \in PackageNames |-> [g |-> Unknown, l |-> Unknown]]
  /\ phase = "start"
  /\ exitCode = -1
  /\ summary = "none"
  /\ packages = <<>>
  /\ pm = ""
  /\ pc = <<>>
  /\ loc = <<>>
  /\ results = <<>>
  /\ warned = {}
  /\ cmdLog = <<>>
  /\ run = 1
  /\ firstResults = <<>>
  /\ call \in {NoCall, [fn |-> "updatePackages", args |-> <<file.packages, "npm">>]}
  /\ value = <<>>

NextDefaults == UpdateCommand \/ CallUpdatePackages \/ PipelineStep

SpecDefaults == InitDefaults /\ [][NextDefaults]_vars

(***************************************************************************)
(* validatePackageConfig applied to a package record as written.           *)
(***************************************************************************)
ValidatePkgs ==
  {Pkg(n, g, s, v, h) : n \in {"", "tool"}, g \in {"", "true", "false"},
                        s \in Strategies \cup {""},
                        v \in {NoVersion, V3(1, 9, 0)}, h \in {<<>>, <<1>>}}

InitValidate ==
  /\ file = [kind |-> "missing", packages |-> <<>>, packageManager |-> ""]
  /\ installed = [n \in PackageNames |-> [g |-> Unknown, l |-> Unknown]]
  /\ phase = "start"
  /\ exitCode = -1
  /\ summary = "none"
  /\ packages = <<>>
  /\ pm = ""
  /\ pc = <<>>
  /\ loc = <<>>
  /\ results = <<>>
  /\ warned = {}
  /\ cmdLog = <<>>
  /\ run = 1
  /\ firstResults = <<>>
  /\ call \in {[fn |-> "validatePackageConfig", args |-> <<pkg>>] :
                 pkg \in ValidatePkgs}
  /\ value = <<>>

CallValidatePackageConfig ==
  /\ call.fn = "validatePackageConfig"
  /\ value = <<>>
  /\ value' = <<validatePackageConfig(call.args[1])>>
  /\ UNCHANGED <<file, installed, phase, exitCode, summary, packages, pm, pc,
                 loc, results, warned, cmdLog, run, firstResults, call>>

NextValidate == CallValidatePackageConfig

SpecValidate == InitValidate /\ [][NextValidate]_vars

(***************************************************************************)
(* The update command when every external command it waits for ends: each  *)
(* step that is possible is eventually taken.                              *)
(***************************************************************************)
\* a readable configuration file without packageManager whose packages
\* other than upvibe are the global package tool, with strategy latest or
\* minor
InitLive ==
  /\ Init
  /\ file.kind = "ok"
  /\ file.packageManager = ""
  /\ \A k \in 1..Len(file.packages) :
        /\ file.packages[k].name = "tool"
        /\ file.packages[k].global = "true"
        /\ file.packages[k].strategy \in {"latest", "minor"}
        /\ file.packages[k].version = NoVersion

SpecLive == InitLive /\ [][Next]_vars /\ WF_vars(Next)

(***************************************************************************)
(* The version arithmetic of getVersionByStrategy and determineUpdateType  *)
(* applied to version strings of every shape.                              *)
(***************************************************************************)
\* "1.2.3-b.1", "1.3" and "1.x.0"
Beta123 == <<Seg(1), Seg(2), [d |-> 3, rest |-> <<"-", "b">>], Seg(1)>>
Short13 == <<Seg(1), Seg(3)>>
Wild1x0 == <<Seg(1), Word(<<"x">>), Seg(0)>>
Wildx20 == <<Word(<<"x">>), Seg(2), Seg(0)>>
Wild12x == <<Seg(1), Seg(2), Word(<<"x">>)>>

VersionPool ==
  {V3(1, 2, 3), V3(1, 2, 4), V3(1, 3, 0), V3(1, 3, 5), V3(2, 0, 0),
   Beta123, Short13, Wild1x0,
                Wildx20, Wild12x}

\* the lists `npm view <name> versions --json` can print
AvailableLists ==
  SeqsUpTo(VersionPool, MaxAvail)
  \cup {<<V3(1, 2, 4), V3(1, 3, 0), V3(1, 3, 5), V3(2, 0, 0)>>}

\* getVersionByStrategy past its two lookups, with the installed version it
\* read and the list it parsed
StrategyCalls ==
  {[fn |-> "getVersionByStrategy", args |-> <<s, cur, avail>>] :
     s \in {"minor", "patch"}, cur \in VersionPool, avail \in AvailableLists}

ClassifyCalls ==
  {[fn |-> "determineUpdateType", args |-> <<cur, target>>] :
     cur \in VersionPool \cup {NoVersion}, target \in VersionPool \cup {Latest}}

\* the state of a module none of whose commands was started
NotStarted ==
  /\ file = [kind |-> "missing", packages |-> <<>>, packageManager |-> ""]
  /\ installed = [n \in PackageNames |-> [g |-> Unknown, l |-> Unknown]]
  /\ phase = "start"
  /\ exitCode = -1
  /\ summary = "none"
  /\ packages = <<>>
  /\ pm = ""
  /\ pc = <<>>
  /\ loc = <<>>
  /\ results = <<>>
  /\ warned = {}
  /\ cmdLog = <<>>
  /\ run = 1
  /\ firstResults = <<>>

InitVersions ==
  /\ NotStarted
  /\ call \in StrategyCalls \cup ClassifyCalls
  /\ value = <<>>

\* the function called returns result
Return(result) ==
  /\ value = <<>>
  /\ value' = <<result>>
  /\ UNCHANGED <<file, installed, phase, exitCode, summary, packages, pm, pc,
                 loc, results, warned, cmdLog, run, firstResults, call>>

\* lines 435-452: the target, with the update type updatePackage derives
\* from it and the same installed version (line 299)
CallGetVersionByStrategy ==
  /\ call.fn = "getVersionByStrategy"
  /\ LET target == PickTarget(call.args[1], call.args[2], call.args[3])
     IN  Return([target |-> target,
                 updateType |-> determineUpdateType(call.args[2], target)])

CallDetermineUpdateType ==
  /\ call.fn = "determineUpdateType"
  /\ Return(determineUpdateType(call.args[1], call.args[2]))

NextVersions == CallGetVersionByStrategy \/ CallDetermineUpdateType

SpecVersions == InitVersions /\ [][NextVersions]_vars

(***************************************************************************)
(* The configuration file under addPackageToConfig, removePackageFromConfig *)
(* and loadConfig (config.ts): the file is the state, each call reads it   *)
(* and writes it at most once.                                             *)
(***************************************************************************)
\* the options of addPackageToConfig; "" and <<>> stand for an absent key
AddOptions ==
  {[global |-> g, strategy |-> st, version |-> v, postinstall |-> <<>>] :
     g \in {"", "false"}, st \in {"", "minor", "pinned"},
     v \in {NoVersion, V3(1, 2, 3)}}

\* lines 132-137: name, the defaults of global and strategy, then ...options
newPackage(packageName, options) ==
  Pkg(packageName,
      IF options.global = "false" THEN "false" ELSE "true",
      IF options.strategy = "" THEN "latest" ELSE options.strategy,
      options.version, options.postinstall)

\* config.packages.findIndex(pkg => pkg.name === packageName), from 1; 0 for -1
existingIndex(pkgs, packageName) ==
  IF \E k \in 1..Len(pkgs) : pkgs[k].name = packageName
  THEN CHOOSE k \in 1..Len(pkgs) :
         /\ pkgs[k].name = packageName
         /\ \A j \in 1..(k - 1) : pkgs[j].name # packageName
  ELSE 0

\* as Placed, with the record pushed whether the name exists or not
PlacedAtEnd(pkgs, pkg) == Append(pkgs, pkg)

\* lines 139-145: the record replaces the existing one or is pushed
Placed(pkgs, pkg) ==
  IF existingIndex(pkgs, pkg.name) > 0
  THEN [pkgs EXCEPT ![existingIndex(pkgs, pkg.name)] = pkg]
  ELSE Append(pkgs, pkg)

\* the file addPackageToConfig writes, from the file f it read
addPackageToConfig(f, packageName, options) ==
  LET isNewConfig == f.kind # "ok"
      read == IF isNewConfig THEN <<>> ELSE f.packages
      first == IF isNewConfig /\ packageName # "upvibe"
               THEN Append(read, UpvibePkg) ELSE read
  IN  [kind |-> "ok",
       packages |-> Placed(first, newPackage(packageName, options)),
       packageManager |-> IF isNewConfig THEN "" ELSE f.packageManager]

\* config.packages.filter(pkg => pkg.name !== packageName)
removePackageFromConfig(pkgs, packageName) ==
  SelectSeq(pkgs, LAMBDA pkg : pkg.name # packageName)

\* lines 154-168: a record was dropped and the file written
Removed(f, packageName, writeOk) ==
  /\ f.kind = "ok"
  /\ Len(removePackageFromConfig(f.packages, packageName)) < Len(f.packages)
  /\ writeOk

\* as LoadedUnlessSaveFails, with a failed write of the file making
\* loadConfig return null
LoadedOnlyIfSaved(f, writeOk) ==
  IF f.kind # "ok" \/ (~hasUpvibe(readConfigFile(f)) /\ ~writeOk)
  THEN <<>> ELSE <<loadConfig(f)>>

\* what loadConfig returns from the file f: <<>> for null, else the list
LoadedUnlessSaveFails(f, writeOk) ==
  IF f.kind # "ok" THEN <<>> ELSE <<loadConfig(f)>>

\* the records of the files the runs start from
ConfigPkgs ==
  {Pkg(n, g, st, v, <<>>) : n \in PackageNames, g \in {"", "false"},
                            st \in {"", "minor", "pinned"},
                            v \in {NoVersion, V3(1, 2, 3)}}

UniqueNames(pkgs) ==
  \A j, k \in 1..Len(pkgs) : pkgs[j].name = pkgs[k].name => j = k

ConfigFiles ==
  {[kind |-> "ok", packages |-> ps, packageManager |-> ""] :
     ps \in {q \in SeqsUpTo(ConfigPkgs, MaxEntries - 1) : UniqueNames(q)}}
  \cup {[kind |-> k, packages |-> <<>>, packageManager |-> ""] :
          k \in {"missing", "corrupt"}}

NoOperation == [fn |-> "config", args |-> <<>>]

\* a configuration file with unique names and no operation made yet
InitConfig ==
  /\ file \in ConfigFiles
  /\ installed = [n \in PackageNames |-> [g |-> Unknown, l |-> Unknown]]
  /\ phase = "start"
  /\ exitCode = -1
  /\ summary = "none"
  /\ packages = <<>>
  /\ pm = ""
  /\ pc = <<>>
  /\ loc = <<>>
  /\ results = <<>>
  /\ warned = {}
  /\ cmdLog = <<>>
  /\ run = 1
  /\ firstResults = <<>>
  /\ call = NoOperation
  /\ value = <<>>

\* an operation on the file ended: what it was called with and read, what
\* it returned and what it left in the file
Operation(fn, args, result, written) ==
  /\ call' = [fn |-> fn, args |-> args]
  /\ value' = <<result>>
  /\ file' = written
  /\ UNCHANGED <<installed, phase, exitCode, summary, packages, pm, pc, loc,
                 results, warned, cmdLog, run, firstResults>>

\* addPackageToConfig(packageName, options): resolved, or rejected with the
\* error of fs.writeFile
CallAddPackageToConfig ==
  /\ Len(file.packages) <= MaxEntries
  /\ \E packageName \in PackageNames, options \in AddOptions,
        writeOk \in BOOLEAN :
       Operation("addPackageToConfig", <<packageName, options, file>>,
                 IF writeOk THEN "resolved" ELSE "rejected",
                 IF writeOk THEN addPackageToConfig(file, packageName, options)
                 ELSE file)

\* removePackageFromConfig(packageName): true when a record was dropped and
\* the file written, false otherwise (lines 154-168)
CallRemovePackageFromConfig ==
  /\ \E packageName \in PackageNames, writeOk \in BOOLEAN :
       LET kept == removePackageFromConfig(file.packages, packageName)
           removed == Removed(file, packageName, writeOk)
       IN  Operation("removePackageFromConfig", <<packageName, file>>, removed,
                     IF removed THEN [file EXCEPT !.packages = kept]
                     ELSE file)

\* loadConfig(): the list returned; the file is written when 'upvibe' was
\* inserted and the write succeeds (lines 36-42)
CallLoadConfig ==
  /\ Len(file.packages) <= MaxEntries
  /\ \E writeOk \in BOOLEAN :
       LET loaded == LoadedUnlessSaveFails(file, writeOk)
           saved == /\ file.kind = "ok"
                    /\ ~hasUpvibe(readConfigFile(file))
                    /\ writeOk
       IN  Operation("loadConfig", <<file, writeOk>>, loaded,
                     IF saved THEN [file EXCEPT !.packages = loaded[1]]
                     ELSE file)

NextConfig ==
  CallAddPackageToConfig \/ CallRemovePackageFromConfig \/ CallLoadConfig

SpecConfig == InitConfig /\ [][NextConfig]_vars

(***************************************************************************)
(* The add and remove commands (index.ts) on a valid configuration file.   *)
(***************************************************************************)
\* the options of the add command as commander hands them over: --global
\* and --strategy have defaults, "weekly" stands for a strategy not known
AddCommandOptions ==
  {[global |-> g, strategy |-> st, version |-> v, postinstall |-> <<>>] :
     g \in {"true", "false"}, st \in {"latest", "minor", "pinned", "weekly"},
     v \in {NoVersion, V3(1, 2, 3)}}

\* lines 150-163: the add command exits with 1 before it writes anything
addRefused(options) ==
  \/ options.strategy \notin Strategies
  \/ options.strategy = "pinned" /\ options.version = NoVersion

\* lines 147-148 and 166-179: the options passed to addPackageToConfig
packageConfig(options) ==
  [global |-> IF options.global = "true" THEN "true" ELSE "false",
   strategy |-> options.strategy, version |-> options.version,
   postinstall |-> options.postinstall]

ValidFiles ==
  {f \in ConfigFiles : f.kind = "ok" /\ CountErrors(loadConfig(f)) = 0}

InitCli ==
  /\ file \in ValidFiles
  /\ installed = [n \in PackageNames |-> [g |-> Unknown, l |-> Unknown]]
  /\ phase = "start"
  /\ exitCode = -1
  /\ summary = "none"
  /\ packages = <<>>
  /\ pm = ""
  /\ pc = <<>>
  /\ loc = <<>>
  /\ results = <<>>
  /\ warned = {}
  /\ cmdLog = <<>>
  /\ run = 1
  /\ firstResults = <<>>
  /\ call = NoOperation
  /\ value = <<>>

\* upvibe add <package> [options]: the exit status is 1 when the command is
\* refused or the write fails (lines 200-203), 0 otherwise
AddCommand ==
  /\ Len(file.packages) <= MaxEntries
  /\ \E packageName \in PackageNames, options \in AddCommandOptions,
        writeOk \in BOOLEAN :
       LET done == ~addRefused(options) /\ writeOk
       IN  Operation("add", <<packageName, options, file>>,
                     IF done THEN 0 ELSE 1,
                     IF done
                     THEN addPackageToConfig(file, packageName,
                                             packageConfig(options))
                     ELSE file)

\* upvibe remove <package>: the exit status is 0 whether a record was
\* removed or not (lines 210-221)
RemoveCommand ==
  /\ \E packageName \in PackageNames, writeOk \in BOOLEAN :
       Operation("remove", <<packageName, file>>, 0,
                 IF Removed(file, packageName, writeOk)
                 THEN [file EXCEPT !.packages =
                         removePackageFromConfig(file.packages, packageName)]
                 ELSE file)

NextCli == AddCommand \/ RemoveCommand

SpecCli == InitCli /\ [][NextCli]_vars

(***************************************************************************)
(* Properties.                                                             *)
(***************************************************************************)
\* the commands spawned for package i, in order
PkgLog(i) == SelectSeq(cmdLog, LAMBDA e : e.pkg = i)

HasInstall(i) ==
  \E p \in 1..Len(cmdLog) : cmdLog[p].pkg = i /\ cmdLog[p].kind = "install"

\* updatePackages was called in this run
Orchestrated == pm # ""

\* the outcome of the k-th result in the words of the specification
OutcomeKind(k) ==
  IF ~results[k].success THEN "Failed"
  ELSE IF HasInstall(k) THEN "Success" ELSE "AlreadyCurrent"

\* C1: updatePackages holds at most one result per package, the k-th names the
\* k-th package, the package after one that has a result was started whatever
\* that result is, and when the run has ended there are exactly N results.
C1_OneResultPerPackageInOrder ==
  /\ Len(results) <= Len(packages)
  /\ \A k \in 1..Len(results) :
       /\ results[k].package = packages[k].name
       /\ k < Len(packages) => pc[k + 1] # "idle"
  /\ (phase = "exited" /\ Orchestrated) => Len(results) = Len(packages)

\* C1 witness: the first package failed and the second one was installed
\* and succeeded.
C1_Witness ==
  /\ phase = "exited"
  /\ Len(results) = 2
  /\ ~results[1].success
  /\ results[2].success
  /\ HasInstall(2)

\* C2: after a run of the orchestrator the exit status is 1 if and only if
\* a result is a failure, and 0 otherwise.
C2_ExitStatusIffFailure ==
  (phase = "exited" /\ Orchestrated) =>
     /\ exitCode \in {0, 1}
     /\ exitCode = 1 <=> \E k \in 1..Len(results) : ~results[k].success

\* C2 witness: a run with a success and a failure has exited.
C2_Witness ==
  /\ phase = "exited"
  /\ Len(results) = 2
  /\ results[1].success
  /\ ~results[2].success
  /\ exitCode = 1

\* the resolved target of a pipeline is a concrete version, the one installed
TargetIsCurrent(l) ==
  /\ l.targetVersion # NoVersion
  /\ l.targetVersion # Latest
  /\ l.targetVersion = l.currentVersion

InstallFailedStep(i) == pc[i] = "installClosed" /\ loc[i].code > 0

\* the step pushes a failed result with this message and spawns nothing
FailsWith(message) ==
  /\ Len(results') = Len(results) + 1
  /\ ~results'[Len(results')].success
  /\ results'[Len(results')].error = message
  /\ cmdLog' = cmdLog

SpawnsHook(i, h) ==
  /\ Len(cmdLog') = Len(cmdLog) + 1
  /\ cmdLog'[Len(cmdLog')].pkg = i
  /\ cmdLog'[Len(cmdLog')].kind = "hook"
  /\ cmdLog'[Len(cmdLog')].hook = h

\* C6: the commands of a package are its install command and then its hooks
\* in configured order; a hook is spawned only when the command before it
\* (the install command or the previous hook) exited with 0 and no other
\* process runs; a hook that fails ends the package as a failure with no
\* further hook; a success has run every hook.
C6_HooksAfterInstallInOrder ==
  /\ [](\A i \in 1..Len(packages) :
          LET log == PkgLog(i)
          IN  /\ log # <<>> => log[1].kind = "install"
              /\ \A j \in 2..Len(log) :
                   /\ log[j].kind = "hook"
                   /\ log[j].hook = j - 1
                   /\ j - 1 <= Len(packages[i].postinstall)
                   /\ log[j].command = packages[i].postinstall[j - 1]
              /\ (i <= Len(results) /\ results[i].success) =>
                   Len(log) = 1 + Len(packages[i].postinstall))
  /\ [][\A i \in 1..Len(pc) :
          /\ \A h \in 1..MaxHooks + 1 :
               SpawnsHook(i, h) =>
                 /\ pc[i] = IF h = 1 THEN "installClosed" ELSE "hookClosed"
                 /\ loc[i].code = 0
                 /\ loc[i].hook = h - 1
                 /\ \A k \in 1..Len(pc) : pc[k] \notin {"install", "hook"}
          /\ (pc[i] = "hookClosed" /\ loc[i].code # 0) =>
               /\ cmdLog' = cmdLog
               /\ pc'[i] = "done"
               /\ Len(results') = Len(results) + 1
               /\ ~results'[Len(results')].success]_vars

\* C6 witness: a package with two hooks failed after its install command and
\* its first hook were spawned; the second hook was not.
C6_Witness ==
  \E k \in 1..Len(results) :
    /\ ~results[k].success
    /\ Len(packages[k].postinstall) >= 2
    /\ Len(PkgLog(k)) = 2
    /\ PkgLog(k)[2].kind = "hook"

\* a package record that the specification calls invalid
Invalid(pkg) ==
  \/ pkg.name = ""
  \/ pkg.strategy = "pinned" /\ pkg.version = NoVersion
  \/ pkg.version # NoVersion /\ pkg.strategy # "pinned"

\* C7: once the update command has read a configuration with an invalid
\* package, the run has ended with status 1 and updatePackages was not
\* called: no command was spawned and there is no result.
C7_InvalidConfigRefused ==
  (/\ phase # "start"
   /\ file.kind = "ok"
   /\ \E k \in 1..Len(file.packages) : Invalid(file.packages[k])) =>
     /\ phase = "exited"
     /\ exitCode = 1
     /\ ~Orchestrated
     /\ packages = <<>>
     /\ cmdLog = <<>>
     /\ results = <<>>

\* C7 witness: a configuration with a valid package (upvibe) and an invalid
\* one was refused.
C7_Witness ==
  /\ phase = "exited"
  /\ exitCode = 1
  /\ file.kind = "ok"
  /\ \E k \in 1..Len(file.packages) : Invalid(file.packages[k])
  /\ \E k \in 1..Len(file.packages) : ~Invalid(file.packages[k])
  /\ cmdLog = <<>>

\* the version installed for a package, in the package's own scope
InstalledFor(pkg) == installed[pkg.name][IF IsGlobal(pkg) THEN "g" ELSE "l"]

\* the k-th numeric component of a version string
Component(v, k) == Elem(SplitNumbers(v), k)

\* C8 as stated: the version in the install command of a minor package has
\* the major component of the installed version, and that of a patch package
\* has its major and minor components.
C8_Original ==
  \A i \in 1..Len(pc) :
    (/\ pc[i] = "install"
     /\ packages[i].strategy \in {"minor", "patch"}
     /\ InstalledFor(packages[i]) \notin {NoVersion, Unknown}) =>
       LET v == PkgLog(i)[1].command.version
           cur == InstalledFor(packages[i])
       IN  /\ Component(v, 1) = Component(cur, 1)
           /\ packages[i].strategy = "patch" =>
                Component(v, 2) = Component(cur, 2)

\* C9: a package that getVersionByStrategy warned about has the target
\* 'latest' and has gone on past the resolution; when it is done and the
\* package manager is supported its install command for 'latest' was spawned.
C9_LookupFailureFallsBackToLatest ==
  \A i \in warned :
    /\ pc[i] \in {"viewLatest", "install", "installClosed", "hook",
                  "hookClosed", "done"}
    /\ pc[i] # "done" => loc[i].targetVersion = Latest
    /\ HasInstall(i) => PkgLog(i)[1].command.version = Latest
    /\ (pc[i] \in {"install", "installClosed", "hook", "hookClosed", "done"}
        /\ pm \in SupportedManagers) => HasInstall(i)
    /\ (pc[i] = "done" /\ ~HasInstall(i)) =>
         results[i] = Failed(i, UnknownManager(pm))

\* C9 witness: a package that was warned about ended as a success.
C9_Witness ==
  \E i \in warned : pc[i] = "done" /\ results[i].success /\ HasInstall(i)

\* the pipelines that await an external process or its continuation
Active == {i \in 1..Len(pc) : pc[i] \notin {"idle", "done"}}

\* C10: at most one pipeline is under way, so at most one external process
\* runs, and the pipeline of a package is started only when every package
\* before it has its result.
C10_OnePackageAtATime ==
  /\ Cardinality(Active) <= 1
  /\ \A i \in 1..Len(pc) : pc[i] # "idle" => Len(results) >= i - 1
  /\ \A i \in 1..Len(pc) : pc[i] = "done" <=> i <= Len(results)

\* C10 witness: the second package's install command runs after the first
\* package's result was pushed.
C10_Witness ==
  /\ Len(pc) >= 2
  /\ pc[2] = "install"
  /\ Len(results) = 1
  /\ HasInstall(1)

\* updatePackage of package i is past the resolution of its target
Resolved(i) == pc[i] \in {"install", "installClosed", "hook", "hookClosed", "done"}

\* C11: a pinned package with a version has that version, as written, as the
\* target and in its install command; a pinned package without a version
\* ends as a failure with the message of getTargetVersion and no command
\* spawned for it, and the package after it is started.
C11_PinnedVerbatimOrFailed ==
  \A i \in 1..Len(packages) :
    packages[i].strategy = "pinned" =>
      IF packages[i].version # NoVersion
      THEN /\ (Resolved(i) /\ pc[i] # "done") =>
                loc[i].targetVersion = packages[i].version
           /\ HasInstall(i) =>
                PkgLog(i)[1].command.version = packages[i].version
           /\ (Resolved(i) /\ pm \in SupportedManagers) => HasInstall(i)
      ELSE pc[i] \notin {"idle", "getCurrentVersion"} =>
             /\ pc[i] = "done"
             /\ results[i] = Failed(i, PinnedRequired)
             /\ PkgLog(i) = <<>>
             /\ i < Len(packages) => pc[i + 1] # "idle"

\* C11 witness: a pinned package without a version failed with nothing
\* spawned for it, and the package after it was installed and succeeded.
C11_Witness ==
  /\ Len(results) = 2
  /\ packages[1].strategy = "pinned"
  /\ packages[1].version = NoVersion
  /\ ~results[1].success
  /\ PkgLog(1) = <<>>
  /\ results[2].success
  /\ HasInstall(2)

\* package i is pinned to 1.9.0 and was found installed at 2.0.0
Downgrade(i, currentVersion) ==
  /\ packages[i].strategy = "pinned"
  /\ packages[i].version = V3(1, 9, 0)
  /\ currentVersion = V3(2, 0, 0)

\* C12: for a package pinned to 1.9.0 and found at 2.0.0, the install command
\* for 1.9.0 is spawned (with a supported package manager) with update type
\* none; when the install command and every hook exited with 0 the result is
\* a success that reports 1.9.0, the previous version 2.0.0 and update type
\* none.
C12_PinnedInstallsOlderTarget ==
  /\ [](\A i \in 1..Len(packages) :
          /\ (Resolved(i) /\ pc[i] # "done"
                 /\ Downgrade(i, loc[i].currentVersion)) =>
                /\ HasInstall(i)
                /\ PkgLog(i)[1].command.version = V3(1, 9, 0)
                /\ loc[i].updateType = "none"
          /\ (i <= Len(results) /\ results[i].success
                 /\ Downgrade(i, results[i].currentVersion)) =>
                /\ HasInstall(i)
                /\ results[i].version = V3(1, 9, 0)
                /\ results[i].updateType = "none")
  /\ [][\A i \in 1..Len(packages) :
          (/\ pc[i] = "getCurrentVersion"
           /\ i <= Len(pc')
           /\ Downgrade(i, loc'[i].currentVersion)
           /\ pm \in SupportedManagers) =>
             pc'[i] = "install"]_vars
  /\ [][\A i \in 1..Len(packages) :
          (/\ pc[i] \in {"installClosed", "hookClosed"}
           /\ Downgrade(i, loc[i].currentVersion)
           /\ loc[i].code = 0
           /\ loc[i].hook = Len(packages[i].postinstall)) =>
             /\ Len(results') = i
             /\ results'[i].success]_vars

\* C12 witness: a package pinned to 1.9.0 and found at 2.0.0 ended as a
\* success after its install command ran.
C12_Witness ==
  \E k \in 1..Len(results) :
    /\ results[k].success
    /\ Downgrade(k, results[k].currentVersion)
    /\ HasInstall(k)
    /\ installed[packages[k].name][IF IsGlobal(packages[k]) THEN "g" ELSE "l"]
         = V3(1, 9, 0)

\* C13 as stated: for a package that is not pinned and is not installed in
\* its own scope (its current version was looked up and is absent), the
\* install command is handed 'latest' and the update type is none.
C13_Original ==
  \A i \in 1..Len(packages) :
    (/\ pc[i] = "install"
     /\ packages[i].strategy # "pinned"
     /\ InstalledFor(packages[i]) = NoVersion
     /\ loc[i].currentVersion = NoVersion) =>
       /\ PkgLog(i)[1].command.version = Latest
       /\ loc[i].updateType = "none"

\* C14: a package with strategy latest has 'latest' in its install command;
\* the command is spawned when `npm view <name> version` ends, whether it
\* succeeded or not; while the version to report is still 'latest' (the
\* lookup failed) the update type is none, and so it is in the success
\* that reports 'latest'.
C14_LatestKeepsSentinel ==
  /\ [](\A i \in 1..Len(packages) :
          packages[i].strategy = "latest" =>
            /\ HasInstall(i) => PkgLog(i)[1].command.version = Latest
            /\ (Resolved(i) /\ pm \in SupportedManagers) => HasInstall(i)
            /\ (Resolved(i) /\ pc[i] # "done"
                   /\ loc[i].actualTargetVersion = Latest) =>
                 loc[i].updateType = "none"
            /\ (i <= Len(results) /\ results[i].success
                   /\ results[i].version = Latest) =>
                 results[i].updateType = "none")
  /\ [][\A i \in 1..Len(packages) :
          (/\ pc[i] = "viewLatest"
           /\ packages[i].strategy = "latest"
           /\ pm \in SupportedManagers) =>
             /\ pc'[i] = "install"
             /\ loc'[i].actualTargetVersion \in {Latest, LatestPublished}
             /\ Len(cmdLog') = Len(cmdLog) + 1
             /\ cmdLog'[Len(cmdLog')].pkg = i
             /\ cmdLog'[Len(cmdLog')].kind = "install"
             /\ cmdLog'[Len(cmdLog')].command.version = Latest]_vars

\* C14 witness: an installed package with strategy latest was installed
\* again and succeeded although the version behind 'latest' was not found.
C14_Witness ==
  \E k \in 1..Len(results) :
    /\ packages[k].strategy = "latest"
    /\ results[k].success
    /\ results[k].version = Latest
    /\ results[k].currentVersion # NoVersion
    /\ HasInstall(k)

\* the first of npm, yarn, pnpm that is available, npm when none is
FirstAvailable(available) ==
  LET order == <<"npm", "yarn", "pnpm">>
      found == {k \in 1..3 : order[k] \in available}
  IN  IF found = {} THEN "npm"
      ELSE order[CHOOSE k \in found : \A j \in found : k <= j]

\* C15: from the moment the update command has chosen and for the rest of
\* the run, the package manager passed to updatePackages is the --manager
\* option when it is npm, yarn or pnpm; without the option it is the
\* packageManager of the configuration file when there is one; without both
\* it is the first available of npm, yarn, pnpm, and npm when none is.
C15_ManagerByPriority ==
  (phase # "start" /\ call.args # <<>>) =>
    LET manager == call.args[1]
        available == call.args[2]
    IN  /\ manager \in SupportedManagers => pm = manager
        /\ (manager = "" /\ file.packageManager # "") =>
             pm = file.packageManager
        /\ (manager = "" /\ file.packageManager = "") =>
             pm = FirstAvailable(available)

\* C15 witness: a run with --manager pnpm over a configuration file that
\* names yarn, on a machine with npm, ended with an install by pnpm.
C15_Witness ==
  /\ phase = "exited"
  /\ call.args # <<>>
  /\ call.args[1] = "pnpm"
  /\ "npm" \in call.args[2]
  /\ file.packageManager = "yarn"
  /\ pm = "pnpm"
  /\ HasInstall(1)
  /\ PkgLog(1)[1].command.words[1] = "pnpm"

\* C16 as stated: the install command spawned for a package is a global
\* install exactly when the package's global flag is set, and it names the
\* package with the target version after the '@' ('latest' as it is).
C16_Original ==
  \A p \in 1..Len(cmdLog) :
    cmdLog[p].kind = "install" =>
      LET pkg == packages[cmdLog[p].pkg]
          command == cmdLog[p].command
      IN  /\ CommandIsGlobal(command) <=> IsGlobal(pkg)
          /\ command.name = pkg.name
          /\ pkg.strategy = "latest" => command.version = Latest

\* C17: in a run with a package manager that getInstallCommand does not
\* know, no command is spawned, every result is the failure with the message
\* of getInstallCommand, the package after a failed one is started, and the
\* run ends only with one result per package and status 1.
C17_UnknownManagerFailsEachPackage ==
  (Orchestrated /\ pm \notin SupportedManagers) =>
    /\ cmdLog = <<>>
    /\ Len(results) <= Len(packages)
    /\ \A k \in 1..Len(results) :
         /\ results[k] = Failed(k, UnknownManager(pm))
         /\ k < Len(packages) => pc[k + 1] # "idle"
    /\ phase = "exited" =>
         /\ Len(results) = Len(packages)
         /\ exitCode = 1

\* C17 witness: a run with the package manager bun from the configuration
\* file ended with a failure for each of its two packages.
C17_Witness ==
  /\ phase = "exited"
  /\ pm = "bun"
  /\ Len(packages) = 2
  /\ Len(results) = 2
  /\ ~results[1].success
  /\ ~results[2].success

\* C18: the packages the update command passes on have global "true" unless
\* the record says false, and strategy latest when the record has none; and
\* updatePackage, for a record without a global flag, looks up the global
\* installation and spawns a global install, and for a record without a
\* strategy goes to the install of 'latest' without the minor/patch lookups.
C18_DefaultsGlobalAndLatest ==
  \A i \in 1..Len(packages) :
    LET rec == file.packages[i]
        name == packages[i].name
    IN  /\ call = NoCall =>
             /\ packages[i].global = IF rec.global = "false" THEN "false"
                                      ELSE "true"
             /\ packages[i].strategy = IF rec.strategy = "" THEN "latest"
                                        ELSE rec.strategy
        /\ (rec.global = "" /\ pc[i] \notin {"idle", "getCurrentVersion"}) =>
             /\ installed[name]["g"] # Unknown
             /\ installed[name]["l"] = Unknown
             /\ HasInstall(i) => CommandIsGlobal(PkgLog(i)[1].command)
        /\ rec.strategy = "" =>
             /\ pc[i] \notin {"stratList", "stratView"}
             /\ i \notin warned
             /\ Resolved(i) => HasInstall(i)
             /\ HasInstall(i) => PkgLog(i)[1].command.version = Latest

\* C18 witness: updatePackages, given a record with neither a global flag
\* nor a strategy, installed the package globally at 'latest'.
C18_Witness ==
  /\ call # NoCall
  /\ Len(results) = 1
  /\ file.packages[1].global = ""
  /\ file.packages[1].strategy = ""
  /\ packages[1] = file.packages[1]
  /\ results[1].success
  /\ PkgLog(1)[1].command = getInstallCommand("npm", "upvibe", Latest, TRUE)
  /\ installed["upvibe"]["g"] = LatestPublished

\* C19: validatePackageConfig returns no error exactly for a record with a
\* name and with a version if and only if its strategy is pinned; a version
\* with a strategy that is not pinned, or absent, gives an error, and so
\* does the strategy pinned without a version.
C19_ValidExactlyWhenVersionIffPinned ==
  (call.fn = "validatePackageConfig" /\ value # <<>>) =>
    LET pkg == call.args[1]
        errors == value[1]
        hasVersion == pkg.version # NoVersion
        pinned == pkg.strategy = "pinned"
    IN  /\ errors = 0 <=> (pkg.name # "" /\ (hasVersion <=> pinned))
        /\ (hasVersion /\ ~pinned) => errors >= 1
        /\ (pinned /\ ~hasVersion) => errors >= 1

\* C19 witness: a named record with a version and no strategy was given an
\* error.
C19_Witness ==
  /\ call.fn = "validatePackageConfig"
  /\ value = <<1>>
  /\ call.args[1].name = "tool"
  /\ call.args[1].strategy = ""
  /\ call.args[1].version = V3(1, 9, 0)

\* C20: a run that entered updatePackages eventually ends with one result
\* per package, and the step that ends a run is never taken with fewer
\* results than packages.
C20_RunEndsWithEveryOutcome ==
  /\ (phase = "updating") ~>
       (phase = "exited" /\ Len(results) = Len(packages))
  /\ [][(phase = "updating" /\ phase' = "exited") =>
          Len(results') = Len(packages)]_vars

\* C20 witness: a run over two packages, both with a failed command, has
\* ended with two results.
C20_Witness ==
  /\ phase = "exited"
  /\ Len(packages) = 2
  /\ Len(results) = 2
  /\ Len(cmdLog) >= 2
  /\ \A k \in 1..2 : ~results[k].success /\ HasInstall(k)

\* a version string of exactly three numeric components
Plain(v) == Len(v) = 3 /\ \A k \in 1..3 : v[k].rest = <<>> /\ v[k].d >= 0

\* the (major, minor, patch) of a version string: the suffix after '-' or
\* '+' dropped, missing components 0
Triple(v) == Pad3(SplitNumbers(cleanVersion(v)))

\* the (major, minor, patch) ordering
TripleLess(a, b) ==
  \/ a[1] < b[1]
  \/ a[1] = b[1] /\ a[2] < b[2]
  \/ a[1] = b[1] /\ a[2] = b[2] /\ a[3] < b[3]

\* version v is an update of cur that the strategy allows
Allowed(strategy, cur, v) ==
  /\ Triple(v)[1] = Triple(cur)[1]
  /\ strategy = "patch" => Triple(v)[2] = Triple(cur)[2]
  /\ TripleLess(Triple(cur), Triple(v))

\* getVersionByStrategy has returned for a strategy, an installed version
\* and a list of published versions
Resolution == call.fn = "getVersionByStrategy" /\ value # <<>>

\* C21 as stated: for plain versions, when some published version passes
\* the strategy filter the target is one that passes and none that passes
\* is greater, whatever the order of the list.
C21_Original ==
  (/\ Resolution
   /\ Plain(call.args[2])
   /\ \A k \in 1..Len(call.args[3]) : Plain(call.args[3][k])
   /\ \E k \in 1..Len(call.args[3]) :
        Allowed(call.args[1], call.args[2], call.args[3][k])) =>
     LET target == value[1].target
     IN  /\ Allowed(call.args[1], call.args[2], target)
         /\ \A k \in 1..Len(call.args[3]) :
              Allowed(call.args[1], call.args[2], call.args[3][k]) =>
                ~TripleLess(Triple(target), Triple(call.args[3][k]))

\* C22: with 1.2.3 installed, minor over [1.2.4, 1.3.0, 1.3.5, 2.0.0] gives
\* the target 1.3.5 and the update type minor, and patch over [1.2.4, 1.3.0]
\* gives the target 1.2.4 and the update type patch.
C22_ScenarioTargets ==
  (Resolution /\ call.args[2] = V3(1, 2, 3)) =>
    /\ (/\ call.args[1] = "minor"
        /\ call.args[3] = <<V3(1, 2, 4), V3(1, 3, 0), V3(1, 3, 5), V3(2, 0, 0)>>)
         => value[1] = [target |-> V3(1, 3, 5), updateType |-> "minor"]
    /\ (call.args[1] = "patch" /\ call.args[3] = <<V3(1, 2, 4), V3(1, 3, 0)>>)
         => value[1] = [target |-> V3(1, 2, 4), updateType |-> "patch"]

\* C22 witness: the minor scenario has been resolved.
C22_Witness ==
  /\ Resolution
  /\ call.args =
       <<"minor", V3(1, 2, 3),
         <<V3(1, 2, 4), V3(1, 3, 0), V3(1, 3, 5), V3(2, 0, 0)>>>>
  /\ value[1].target = V3(1, 3, 5)

\* C23: when no published version passes the filter of the strategy, the
\* target is the installed version as it was read.
C23_NoEligibleKeepsCurrent ==
  (/\ Resolution
   /\ \A k \in 1..Len(call.args[3]) :
        ~Eligible(call.args[1], call.args[2], call.args[3][k])) =>
     /\ value[1].target = call.args[2]
     /\ value[1].target # Latest

\* C23 witness: patch with 1.3.5 installed and only 1.3.0 and 2.0.0
\* published has kept 1.3.5.
C23_Witness ==
  /\ Resolution
  /\ call.args = <<"patch", V3(1, 3, 5), <<V3(1, 3, 0), V3(2, 0, 0)>>>>
  /\ value[1].target = V3(1, 3, 5)

\* a version string whose components, suffix dropped, are numbers
Numeric(v) == \A k \in 1..3 : Triple(v)[k] >= 0

\* determineUpdateType has returned for an installed version and a target
Classification == call.fn = "determineUpdateType" /\ value # <<>>

\* C24: determineUpdateType gives none without an installed version and for
\* a target equal to it; for numeric versions it gives major when the
\* target's major is greater, minor when the majors are equal and the
\* target's minor is greater, patch when major and minor are equal and the
\* target's patch is greater, and none for every target that is not greater
\* than the installed version.
C24_UpdateTypeNeverForDowngrade ==
  Classification =>
    LET cur == call.args[1]
        target == call.args[2]
        c == Triple(cur)
        t == Triple(target)
    IN  /\ cur = NoVersion => value[1] = "none"
        /\ cur = target => value[1] = "none"
        /\ (cur # NoVersion /\ target # Latest /\ Numeric(cur) /\ Numeric(target)) =>
             /\ t[1] > c[1] => value[1] = "major"
             /\ (t[1] = c[1] /\ t[2] > c[2]) => value[1] = "minor"
             /\ (t[1] = c[1] /\ t[2] = c[2] /\ t[3] > c[3]) => value[1] = "patch"
             /\ ~TripleLess(c, t) => value[1] = "none"

\* C24 witness: the target 1.3.5 over the installed 2.0.0 was classified
\* none.
C24_Witness ==
  /\ Classification
  /\ call.args = <<V3(2, 0, 0), V3(1, 3, 5)>>
  /\ value = <<"none">>

\* the version string major.minor.patch of a version string
Stripped(v) == V3(Triple(v)[1], Triple(v)[2], Triple(v)[3])

\* C25 as stated: a version string with a suffix or with fewer than three
\* components is classified and filtered as its plain major.minor.patch:
\* the update type is that of the plain strings, and when a published
\* version is an allowed update of the installed one the target is one.
C25_Original ==
  /\ (Classification /\ call.args[1] # NoVersion /\ call.args[2] # Latest
        /\ Numeric(call.args[1]) /\ Numeric(call.args[2])) =>
       value[1] = determineUpdateType(Stripped(call.args[1]),
                                      Stripped(call.args[2]))
  /\ (/\ Resolution
      /\ Numeric(call.args[2])
      /\ \A k \in 1..Len(call.args[3]) : Numeric(call.args[3][k])) =>
       /\ (\E k \in 1..Len(call.args[3]) :
             Allowed(call.args[1], call.args[2], call.args[3][k])) =>
            Allowed(call.args[1], call.args[2], value[1].target)
       /\ value[1].target # call.args[2] =>
            Allowed(call.args[1], call.args[2], value[1].target)

\* the first of the three components of a version string, after the suffix
\* is dropped, that is not a number; 4 when all are numbers
FirstNonNumeric(v) ==
  IF Triple(v)[1] = NaN THEN 1
  ELSE IF Triple(v)[2] = NaN THEN 2
  ELSE IF Triple(v)[3] = NaN THEN 3 ELSE 4

\* C26 as stated: a component that is not a number makes the classification
\* end with an InvalidVersionFormat error.
C26_Original ==
  (/\ Classification
   /\ call.args[1] # NoVersion /\ call.args[2] # Latest
   /\ ~Numeric(call.args[1]) \/ ~Numeric(call.args[2])) =>
    value[1] = "InvalidVersionFormat"

\* What determineUpdateType does instead (C26): no error is raised for a
\* component that is not a number. It is neither greater than nor equal to
\* anything: the classification is decided
\* by the components before the first such one, as an update of the highest
\* that grew with those above it equal, and is none otherwise. The strategy
\* resolution ends with a published version or the current one.
C26_NonNumericComparesFalse ==
  /\ (/\ Classification
      /\ call.args[1] # NoVersion /\ call.args[2] # Latest
      /\ ~Numeric(call.args[1]) \/ ~Numeric(call.args[2])) =>
       LET c == Triple(call.args[1])
           t == Triple(call.args[2])
           n == IF FirstNonNumeric(call.args[1]) < FirstNonNumeric(call.args[2])
                THEN FirstNonNumeric(call.args[1])
                ELSE FirstNonNumeric(call.args[2])
       IN  /\ value[1] \in {"major", "minor", "patch", "none"}
           /\ value[1] = "major" <=> (n > 1 /\ t[1] > c[1])
           /\ value[1] = "minor" <=> (n > 2 /\ t[1] = c[1] /\ t[2] > c[2])
           /\ value[1] # "patch"
  /\ Resolution =>
       \/ value[1].target = call.args[2]
       \/ \E k \in 1..Len(call.args[3]) : value[1].target = call.args[3][k]

\* 1.x.0 to 2.0.0 is classified as a major update
C26_Witness ==
  /\ Classification
  /\ call.args = <<Wild1x0, V3(2, 0, 0)>>
  /\ value = <<"major">>

\* C27 as stated: the version a success result reports is the version
\* installed, in the package's own scope, when the result is recorded.
C27_Original ==
  \A k \in 1..Len(results) :
    (Orchestrated /\ k <= Len(packages) /\ results[k].success) =>
      results[k].version = InstalledFor(packages[k])

\* the commands of a kind, and for a hook of an index, started for package i
Started(i, kind, h) ==
  Len(SelectSeq(cmdLog, LAMBDA e : e.pkg = i /\ e.kind = kind /\ e.hook = h))

\* C28: whatever the exit codes, the install command of a package is started
\* at most once in a run and each of its post-install hooks at most once.
C28_NoRetries ==
  \A i \in 1..Len(packages) :
    /\ Started(i, "install", 0) <= 1
    /\ \A h \in 1..MaxHooks : Started(i, "hook", h) <= 1

\* C28 witness: a package ended as failed after a hook exited with an error,
\* its install and that hook started once.
C28_Witness ==
  \E i \in 1..Len(pc) :
    /\ pc[i] = "done"
    /\ ~results[i].success
    /\ Started(i, "install", 0) = 1
    /\ Started(i, "hook", 1) = 1
    /\ LastCommand(cmdLog, i).kind = "hook"

UpdateTypes == {"major", "minor", "patch", "none"}

\* C29: a failed result has an error message that is not empty and no
\* version, previous version or update type; a successful result has a
\* version and an update type and no error message.
C29_ResultsWellFormed ==
  \A k \in 1..Len(results) :
    IF results[k].success
    THEN /\ "error" \notin DOMAIN results[k]
         /\ {"version", "updateType"} \subseteq DOMAIN results[k]
         /\ results[k].version # NoVersion
         /\ results[k].updateType \in UpdateTypes
    ELSE /\ "error" \in DOMAIN results[k]
         /\ results[k].error # <<>>
         /\ DOMAIN results[k] \cap {"version", "currentVersion", "updateType"}
              = {}

\* C29 witness: a package whose install of a resolved version exited with an
\* error and printed nothing has its failed result.
C29_Witness ==
  \E k \in 1..Len(results) :
    /\ Orchestrated
    /\ ~results[k].success
    /\ results[k].error = CommandFailed(1)
    /\ HasInstall(k)
    /\ PkgLog(k)[1].command.version # Latest

\* C30 as stated: the installed version that the minor and patch resolution
\* constrains the target by is the one updatePackage found before, in the
\* package's own scope, and reports as the previous version. Stated for the
\* runs in which updatePackage found what is installed in that scope.
C30_Original ==
  \A i \in 1..Len(pc) :
    (/\ Orchestrated
     /\ packages[i].strategy \in {"minor", "patch"}
     /\ pc[i] \in {"stratView", "viewLatest", "install", "installClosed",
                   "hook", "hookClosed"}
     /\ loc[i].stratCurrent # NoVersion
     /\ loc[i].currentVersion = InstalledFor(packages[i])) =>
       loc[i].stratCurrent = loc[i].currentVersion

\* C31 as stated: the update command never reaches process.exit while
\* printSummary still has its output pending.
C31_Original == phase = "exited" => summary # "pending"

\* addPackageToConfig resolved for a name that the file it read had
AddedExisting ==
  /\ call.fn = "addPackageToConfig"
  /\ value = <<"resolved">>
  /\ call.args[3].kind = "ok"
  /\ existingIndex(call.args[3].packages, call.args[1]) > 0

C33_Original == file.kind = "ok" => CountErrors(loadConfig(file)) = 0

\* loadConfig has returned; call.args holds the file it read and whether
\* the file could be written
LoadReturned == call.fn = "loadConfig" /\ value # <<>>

\* C34: loadConfig returns null only for a file that is missing or cannot
\* be read; the list it returns otherwise has a record named 'upvibe'. When
\* the file has one the list is the file's with the defaults and the file is
\* left alone; when it has none the record {upvibe, global, latest} is the
\* first of the list, the file's records follow, and the file holds that
\* list if the write succeeds and is unchanged if it fails. After 'upvibe'
\* was removed the file has no such record and the next load returns one.
C34_LoadAlwaysHasUpvibe ==
  /\ LoadReturned =>
       LET before == call.args[1]
           writeOk == call.args[2]
           read == readConfigFile(before)
       IN  IF before.kind # "ok" THEN value[1] = <<>> /\ file = before
           ELSE /\ value[1] # <<>>
                /\ hasUpvibe(value[1][1])
                /\ IF \E k \in 1..Len(before.packages) :
                          before.packages[k].name = "upvibe"
                   THEN value[1][1] = read /\ file = before
                   ELSE /\ Head(value[1][1]) =
                             Pkg("upvibe", "true", "latest", NoVersion, <<>>)
                        /\ Tail(value[1][1]) = read
                        /\ file = IF writeOk
                                  THEN [before EXCEPT !.packages = value[1][1]]
                                  ELSE before
  /\ (/\ call.fn = "removePackageFromConfig"
      /\ call.args[1] = "upvibe"
      /\ value = <<TRUE>>) =>
       /\ ~hasUpvibe(file.packages)
       /\ \A writeOk \in BOOLEAN :
            hasUpvibe(LoadedUnlessSaveFails(file, writeOk)[1])

\* C34 witness: the file had one record, not named 'upvibe', and could not
\* be written: loadConfig returned the list with 'upvibe' in front.
C34_Witness ==
  /\ LoadReturned
  /\ call.args[1].kind = "ok"
  /\ Len(call.args[1].packages) = 1
  /\ ~hasUpvibe(call.args[1].packages)
  /\ ~call.args[2]
  /\ value[1] # <<>>
  /\ Len(value[1][1]) = 2
  /\ value[1][1][1].name = "upvibe"
  /\ file = call.args[1]

====
